---------------------------- MODULE Spec2Model ----------------------------
(***************************************************************************)
(* Model of the IBM software forecast pipeline:                            *)
(*   forecast_core/logic.py   the seven table stages                       *)
(*   tools/forecast_tool.py   generate_forecast, the orchestrator          *)
(*   app.py                   run_forecast, the HTTP wrapper               *)
(*                                                                         *)
(* A DataFrame is a record [columns, data]: an ordered header and a        *)
(* sequence of rows, each row a sequence of cells aligned with the header  *)
(* (pandas allows a repeated header name, and the forecast sheet has one). *)
(*                                                                         *)
(* TLA+ strings are ASCII here, so the Japanese column names and markers   *)
(* of the source are written in romanised form:                            *)
(*   MakerName = メーカ名          QuoteDate = 見積作成日                  *)
(*   Customer = 顧客名             SalesRep = 担当営業                     *)
(*   Assistant = アシスタント名    QuoteNo = 見積No                        *)
(*   Revision = 版数               Subject = 件名                          *)
(*   Brand = ブランド              MakerPartNo = メーカ型番                *)
(*   LicenseCategory = ライセンスカテゴリー   LicenseForm = ライセンス形態 *)
(*   ProductName = 商品名          Quantity = 数量                         *)
(*   Subtotal = 小計               QuoteNotes = 見積注意事項               *)
(*   DeliveryDue = 納入期日        UnitPrice = 単価                        *)
(*   CostUnitPrice = 原単価        GrossProfit = 粗利額                    *)
(*   CostSubtotal = 原価小計       GrossProfitSubtotal = 粗利小計          *)
(*   Confidence = 確度             ExpectedOrderDate = 受注予定日          *)
(*   OrderStatus = 受注有無        EndUser = エンドユーザー名              *)
(*   Period = 時期                 ConfidenceClass = 確度分類              *)
(*   Flag200 = 200万FLAG           AmountFlag = 200万円UPフラグ            *)
(*   PartNo = パーツ番号                                                   *)
(*   STAR = "★"   MARU = "○"   NG = "NG"                                   *)
(* A text value is a sequence of one-character tokens; kana and kanji are  *)
(* written as romanised tokens ("ni","hon" = 日本), Latin letters and      *)
(* digits as themselves ("a_", "i_", "e_" are the kana ア, イ, エ).        *)
(***************************************************************************)
EXTENDS Integers, Sequences, FiniteSets, TLC

VARIABLES
    pc,               \* position of the running entry point
    quotes_df,        \* generate_forecast: the loaded quote table
    master_df,        \* generate_forecast: the loaded part master
    ibm_df,           \* generate_forecast: local ibm_df
    df,               \* generate_forecast: local df (the working table)
    forecast_df,      \* generate_forecast: local forecast_df
    vad_df,           \* generate_forecast: local vad_df
    needs_review_df,  \* generate_forecast: local needs_review_df
    output_prefix,    \* generate_forecast: local output_prefix
    written,          \* object storage: the keys put so far
    response,         \* run_forecast: what the endpoint answered
    trace,            \* the stages generate_forecast has entered, in order
    cos,              \* object storage as found: configuration and inputs
    fn,               \* direct call of a stage: which function
    arg,              \* direct call: the table object passed first
    arg2,             \* direct call: the master table object passed second
    ret,              \* direct call: the outcome of the call (see Return)
    prev              \* direct call: the table returned by the call before

vars == <<pc, quotes_df, master_df, ibm_df, df, forecast_df, vad_df,
          needs_review_df, output_prefix, written, response, trace,
          cos, fn, arg, arg2, ret, prev>>

----------------------------------------------------------------------------
(* Bounds of the model.                                                    *)

\* rows of a quote table handed to generate_forecast
MaxQuoteRows == 2
\* rows of a part master
MaxMasterRows == 2
\* rows of a table handed to a stage called directly
MaxStageRows == 2
\* columns removed from the table handed to a projector called directly
MaxMissing == 2

----------------------------------------------------------------------------
(* Cells.                                                                  *)

Null == [t |-> "null", s |-> <<>>, n |-> 0]
S(chars) == [t |-> "str", s |-> chars, n |-> 0]
N(k) == [t |-> "num", s |-> <<>>, n |-> k]

isna(c) == c.t = "null"

Min(a, b) == IF a < b THEN a ELSE b

DigitChar(d) == <<"0", "1", "2", "3", "4", "5", "6", "7", "8", "9">>[d + 1]

RECURSIVE Digits(_)
Digits(k) == IF k < 10 THEN <<DigitChar(k)>>
             ELSE Append(Digits(k \div 10), DigitChar(k % 10))

\* Series.astype(str), one cell: NaN prints as "nan", an integer in decimal.
astype_str(c) ==
    CASE c.t = "null" -> <<"n", "a", "n">>
      [] c.t = "num" -> IF c.n < 0 THEN <<"-">> \o Digits(-c.n) ELSE Digits(c.n)
      [] OTHER -> c.s

\* Series.str.slice(0, stop), one text.
str_slice(chars, stop) == SubSeq(chars, 1, Min(stop, Len(chars)))

ToUpper(ch) ==
    CASE ch = "i" -> "I" [] ch = "b" -> "B" [] ch = "m" -> "M" [] OTHER -> ch

\* variant: the match ignores case (case=False)
str_contains_nocase(chars, pat) ==
    \E k \in 0..(Len(chars) - Len(pat)) :
        \A j \in 1..Len(pat) : ToUpper(chars[k + j]) = pat[j]

\* Series.str.contains(pat) / Python's "pat in s", one text.
str_contains(chars, pat) ==
    \E k \in 0..(Len(chars) - Len(pat)) :
        \A j \in 1..Len(pat) : chars[k + j] = pat[j]

----------------------------------------------------------------------------
(* DataFrames.                                                             *)

NoTable == [columns |-> <<>>, data |-> <<>>]

\* F applied to the value of e, e being evaluated once (a Python assignment
\* x = e followed by the statements F that read x)
Bind(e, F(_)) == CHOOSE r \in {F(x) : x \in {e}} : TRUE

Range(seq) == {seq[i] : i \in 1..Len(seq)}

HasCol(t, c) == c \in Range(t.columns)

\* position of the first column named c
ColIdx(t, c) ==
    CHOOSE i \in 1..Len(t.columns) :
        t.columns[i] = c /\ \A j \in 1..(i - 1) : t.columns[j] # c

\* df[c]: the column as a sequence of cells
Col(t, c) == [i \in 1..Len(t.data) |-> t.data[i][ColIdx(t, c)]]

\* df[c] = series: overwrite the column, or append it as the last column
SetCol(t, c, series) ==
    IF HasCol(t, c)
    THEN [t EXCEPT !.data =
             [i \in 1..Len(t.data) |->
                 [t.data[i] EXCEPT ![ColIdx(t, c)] = series[i]]]]
    ELSE [columns |-> Append(t.columns, c),
          data |-> [i \in 1..Len(t.data) |-> Append(t.data[i], series[i])]]

RECURSIVE KeepIdx(_, _, _)
KeepIdx(mask, i, acc) ==
    IF i > Len(mask) THEN acc
    ELSE KeepIdx(mask, i + 1, IF mask[i] THEN Append(acc, i) ELSE acc)

\* df[mask] (with or without reset_index(drop=True): the model keeps no index)
SelectRows(t, mask) ==
    LET keep == KeepIdx(mask, 1, <<>>)
    IN  [columns |-> t.columns,
         data |-> [k \in 1..Len(keep) |-> t.data[keep[k]]]]

\* df[cols]: the listed columns, in the listed order
Project(t, cols) ==
    [columns |-> cols,
     data |-> [i \in 1..Len(t.data) |->
                  [k \in 1..Len(cols) |-> t.data[i][ColIdx(t, cols[k])]]]]

\* variant: only the first absent column is reported
MissingFirst(t, required) ==
    IF \A k \in 1..Len(required) : HasCol(t, required[k]) THEN <<>>
    ELSE <<required[CHOOSE k \in 1..Len(required) :
                        /\ ~HasCol(t, required[k])
                        /\ \A j \in 1..(k - 1) : HasCol(t, required[j])]>>

\* [c for c in required if c not in df.columns]
MissingCols(t, required) == SelectSeq(required, LAMBDA c : ~HasCol(t, c))


\* df.drop_duplicates(): the first occurrence of every distinct row (NaN = NaN)
drop_duplicates(t) ==
    SelectRows(t, [i \in 1..Len(t.data) |->
                      \A j \in 1..(i - 1) : t.data[j] # t.data[i]])

RECURSIVE MergeRows(_, _, _, _, _, _)
MergeRows(l, r, key, other, i, acc) ==
    IF i > Len(l.data) THEN acc
    ELSE LET k == l.data[i][ColIdx(l, key)]
             hits == KeepIdx([j \in 1..Len(r.data) |->
                                 r.data[j][ColIdx(r, key)] = k], 1, <<>>)
             tail(j) == [c \in 1..Len(other) |-> r.data[j][ColIdx(r, other[c])]]
             rows == IF hits = <<>>
                     THEN <<l.data[i] \o [c \in 1..Len(other) |-> Null]>>
                     ELSE [h \in 1..Len(hits) |-> l.data[i] \o tail(hits[h])]
         IN  MergeRows(l, r, key, other, i + 1, acc \o rows)

\* left.merge(right, on=key, how="left"): every left row, in order, once per
\* right row with an equal key (in the right table's order), or once with
\* nulls when there is none.  The right table's other columns are appended.
\* (The tables of this model share no column name besides the key, so the
\* _x/_y suffixes of pandas never arise.)
merge_left(l, r, key) ==
    LET other == SelectSeq(r.columns, LAMBDA c : c # key)
    IN  [columns |-> l.columns \o other,
         data |-> MergeRows(l, r, key, other, 1, <<>>)]

----------------------------------------------------------------------------
(* Objects.  A stage runs on a heap of table objects: its arguments are    *)
(* the first objects, df.copy() allocates a new one, df[c] = ... changes   *)
(* an object in place.  The outcome of a call tells what the argument      *)
(* objects hold afterwards, what is returned (or that it raised, and the   *)
(* columns the KeyError names), and whether the returned object is one of  *)
(* the arguments.                                                          *)

\* variant: no copy is made, the stage works on the object it was given
copy_alias(h, r) == [heap |-> h, ref |-> r]

\* DataFrame.copy(): a new object with the same contents
copy(h, r) ==
    CHOOSE c \in {[heap |-> Append(hv, hv[r]), ref |-> Len(hv) + 1] : hv \in {h}} : TRUE

\* an expression that builds a new DataFrame (df[mask], df[cols], merge, ...)
alloc(h, t) ==
    CHOOSE c \in {[heap |-> Append(hv, t), ref |-> Len(hv) + 1] : hv \in {h}} : TRUE

\* in-place change of object r
store(h, r, t) == [h EXCEPT ![r] = t]

Raise(h, nargs, cols) ==
    [args |-> SubSeq(h, 1, nargs), ret |-> NoTable, fresh |-> TRUE,
     raised |-> TRUE, missing |-> cols]

Return(h, nargs, r) ==
    [args |-> SubSeq(h, 1, nargs), ret |-> h[r], fresh |-> r > nargs,
     raised |-> FALSE, missing |-> <<>>]

NoResult ==
    [args |-> <<>>, ret |-> NoTable, fresh |-> TRUE, raised |-> FALSE,
     missing |-> <<>>]

constant_series(t, c) == [i \in 1..Len(t.data) |-> c]

----------------------------------------------------------------------------
(* forecast_core/logic.py                                                  *)

\* "日本アイ・ビー・エム", "日本IBM", "日本アイ・ビー・エム株式会社"
NihonAiBiEmu == <<"ni", "hon", "a_", "i_", "dot", "bi", "long", "dot", "e_", "mu">>
NihonIBM == <<"ni", "hon", "I", "B", "M">>
NihonAiBiEmuKK == NihonAiBiEmu \o <<"kabu", "shiki", "gai", "sha">>
patterns == <<NihonAiBiEmu, NihonIBM, NihonAiBiEmuKK>>

\* Series.isin(values), one cell
isin(c, values) == c.t = "str" /\ c.s \in Range(values)

\* variant: the mask keeps every row
MakerMaskAll(c) == TRUE

\* mask | extra_mask of filter_ibm_manufacturer, one cell
MakerMask(c) ==
    isin(c, patterns) \/ str_contains(astype_str(c), <<"I", "B", "M">>)

filter_ibm_manufacturer(q) ==
    Bind(copy(<<q>>, 1), LAMBDA c :
        IF ~HasCol(c.heap[c.ref], "MakerName")
        THEN Raise(c.heap, 1, <<"MakerName">>)
        ELSE Bind(alloc(c.heap,
                        SelectRows(c.heap[c.ref],
                                   [i \in 1..Len(c.heap[c.ref].data) |->
                                       MakerMask(Col(c.heap[c.ref], "MakerName")[i])])),
                  LAMBDA f : Return(f.heap, 1, f.ref)))

SkuLen == 7

\* Series.astype(str).str.slice(0, 7), one cell
SkuOf(c) == S(str_slice(astype_str(c), SkuLen))

attach_sku(q) ==
    Bind(copy(<<q>>, 1), LAMBDA c :
        IF ~HasCol(c.heap[c.ref], "MakerPartNo")
        THEN Raise(c.heap, 1, <<"MakerPartNo">>)
        ELSE Bind(store(c.heap, c.ref,
                        SetCol(c.heap[c.ref], "SKU",
                               [i \in 1..Len(c.heap[c.ref].data) |->
                                   SkuOf(Col(c.heap[c.ref], "MakerPartNo")[i])])),
                  LAMBDA h1 : Return(h1, 1, c.ref)))

MasterRequired == <<"PartNo", "Brand", "LicenseForm">>

\* master["SKU"] = ...; master_small = master[[...]].drop_duplicates()
MasterSmall(h, master) ==
    Bind(store(h, master,
               SetCol(h[master], "SKU",
                      [i \in 1..Len(h[master].data) |->
                          SkuOf(Col(h[master], "PartNo")[i])])),
         LAMBDA h1 :
             Bind(Project(h1[master], <<"SKU", "Brand", "LicenseForm">>),
                  LAMBDA p : alloc(h1, drop_duplicates(p))))

\* df = df.merge(master_small, on="SKU", how="left");
\* df["ライセンスカテゴリー"] = df["ライセンス形態"]; return df
MergeAndReturn(h, left, small) ==
    \* merge(on="SKU") raises KeyError when the left table has no SKU column
    IF ~HasCol(h[left], "SKU") THEN Raise(h, 2, <<"SKU">>)
    ELSE Bind(alloc(h, merge_left(h[left], h[small], "SKU")), LAMBDA mg :
             Bind(store(mg.heap, mg.ref,
                        SetCol(mg.heap[mg.ref], "LicenseCategory",
                               Col(mg.heap[mg.ref], "LicenseForm"))),
                  LAMBDA h2 : Return(h2, 2, mg.ref)))

attach_brand_and_license(q, m) ==
    Bind(copy(<<q, m>>, 1), LAMBDA c1 :
        Bind(copy(c1.heap, 2), LAMBDA c2 :
            IF MissingCols(c2.heap[c2.ref], MasterRequired) # <<>>
            THEN Raise(c2.heap, 2, MissingCols(c2.heap[c2.ref], MasterRequired))
            ELSE Bind(MasterSmall(c2.heap, c2.ref), LAMBDA small :
                     MergeAndReturn(small.heap, c1.ref, small.ref))))

SoftwareHeads == {"D", "E", "X", "Y"}

\* sku.str[0].isin(["D","E","X","Y"]), one cell ("" has no first character)
SoftwareMask(c) ==
    LET s == astype_str(c) IN Len(s) > 0 /\ s[1] \in SoftwareHeads

filter_ibm_software(q) ==
    Bind(copy(<<q>>, 1), LAMBDA c :
        IF ~HasCol(c.heap[c.ref], "SKU")
        THEN Raise(c.heap, 1, <<"SKU">>)
        ELSE Bind(alloc(c.heap,
                        SelectRows(c.heap[c.ref],
                                   [i \in 1..Len(c.heap[c.ref].data) |->
                                       SoftwareMask(Col(c.heap[c.ref], "SKU")[i])])),
                  LAMBDA f : Return(f.heap, 1, f.ref)))

AmountThreshold == 2000000

RECURSIVE SumWhere(_, _, _, _)
SumWhere(keys, vals, k, i) ==
    IF i > Len(keys) THEN 0
    ELSE (IF keys[i] = k /\ ~isna(vals[i]) THEN vals[i].n ELSE 0)
         + SumWhere(keys, vals, k, i + 1)

\* df.groupby("見積No", dropna=False)["小計"].sum(), the entry of one key:
\* NaN keys form a group, NaN amounts are skipped
pivot(t, k) == SumWhere(Col(t, "QuoteNo"), Col(t, "Subtotal"), k, 1)

\* variant: the threshold taken inclusively (>=)
IsHighInclusive(total) == total >= AmountThreshold

\* pivot > 2_000_000
IsHigh(total) == total > AmountThreshold

AmountRequired == <<"QuoteNo", "Subtotal">>

\* pivot[pivot > 2_000_000].index
HighIds(t) == {k \in Range(Col(t, "QuoteNo")) : IsHigh(pivot(t, k))}

\* df["見積No"].isin(high_ids).map({True: "★", False: "NG"})
FlagSeries(t) ==
    Bind(HighIds(t), LAMBDA high_ids :
        [i \in 1..Len(t.data) |->
            IF Col(t, "QuoteNo")[i] \in high_ids
            THEN S(<<"STAR">>) ELSE S(<<"NG">>)])

attach_amount_flag(q) ==
    Bind(copy(<<q>>, 1), LAMBDA c :
        IF MissingCols(c.heap[c.ref], AmountRequired) # <<>>
        THEN Raise(c.heap, 1, MissingCols(c.heap[c.ref], AmountRequired))
        ELSE Bind(FlagSeries(c.heap[c.ref]), LAMBDA flag :
                 Bind(store(c.heap, c.ref, SetCol(c.heap[c.ref], "AmountFlag", flag)),
                      LAMBDA h1 : Return(h1, 1, c.ref))))

IsDigit(ch) == ch \in {"0", "1", "2", "3", "4", "5", "6", "7", "8", "9"}

DigitVal(ch) == CHOOSE d \in 0..9 : DigitChar(d) = ch

RECURSIVE ParseNat(_, _)
ParseNat(chars, acc) ==
    IF chars = <<>> THEN acc
    ELSE ParseNat(Tail(chars), 10 * acc + DigitVal(Head(chars)))

\* pd.to_numeric(errors="coerce").astype("Int64"), one cell: a number stays,
\* a text of digits is read, anything else becomes <NA>
to_numeric(c) ==
    CASE c.t = "num" -> c
      [] c.t = "str" /\ c.s # <<>> /\ \A i \in 1..Len(c.s) : IsDigit(c.s[i])
            -> N(ParseNat(c.s, 0))
      [] OTHER -> Null

\* pd.to_datetime(errors="coerce").dt.strftime("%Y-%m"), one cell.  The dates
\* of the model are texts YYYY/MM/DD or YYYY-MM-DD; every other value is NaT,
\* whose strftime is NaN.
period_of(c) ==
    IF /\ c.t = "str"
       /\ Len(c.s) = 10
       /\ c.s[5] \in {"/", "-"}
       /\ c.s[8] = c.s[5]
       /\ \A i \in {1, 2, 3, 4, 6, 7, 9, 10} : IsDigit(c.s[i])
    THEN S(SubSeq(c.s, 1, 4) \o <<"-">> \o SubSeq(c.s, 6, 7))
    ELSE Null

\* classify_conf: "受注" = <<"ju","chu">>, "概算" = <<"gai","san">>
classify_conf(x) ==
    IF isna(x) THEN S(<<>>)
    ELSE LET s == astype_str(x)
         IN  IF str_contains(s, <<"ju", "chu">>) THEN S(<<"H", "i", "g", "h">>)
             ELSE IF str_contains(s, <<"gai", "san">>) THEN S(<<"L", "o", "w">>)
             ELSE S(<<>>)

\* map_flag
map_flag(v) == IF v = S(<<"STAR">>) THEN S(<<"MARU">>) ELSE S(<<>>)

\* cols_internal of build_forecast_table
ForecastColsInternal ==
    <<"MakerName", "QuoteDate", "Customer", "SalesRep", "Assistant",
      "QuoteNo", "Revision", "Subject", "Brand", "MakerPartNo", "SKU",
      "LicenseCategory", "ProductName", "Quantity", "Subtotal", "QuoteNotes",
      "DeliveryDue", "UnitPrice", "CostUnitPrice", "GrossProfit",
      "CostSubtotal", "GrossProfitSubtotal", "Confidence",
      "ExpectedOrderDate", "OrderStatus", "EndUser", "Period",
      "ConfidenceClass", "Flag200">>

\* header of build_forecast_table; the last name stands for
\* "200万円UPかどうかの判断（実データは200万円以上の案件のみピックアップします）"
ForecastHeader ==
    <<"MakerName", "QuoteDate", "Customer", "SalesRep", "Assistant",
      "QuoteNo", "Revision", "Subject", "Brand", "MakerPartNo", "SKU",
      "LicenseCategory", "ProductName", "Quantity", "Subtotal", "QuoteNotes",
      "DeliveryDue", "UnitPrice", "CostUnitPrice", "GrossProfit",
      "CostSubtotal", "GrossProfitSubtotal", "Confidence",
      "ExpectedOrderDate", "OrderStatus", "EndUser", "Period",
      "Confidence", "Over200Judgement">>

\* the loop over ["見積No", "版数"]
RECURSIVE NumericCols(_, _)
NumericCols(t, cols) ==
    IF cols = <<>> THEN t
    ELSE CHOOSE r \in {NumericCols(t1, Tail(cols)) :
                           t1 \in {IF HasCol(t, Head(cols))
                                    THEN SetCol(t, Head(cols),
                                                [i \in 1..Len(t.data) |->
                                                    to_numeric(Col(t, Head(cols))[i])])
                                    ELSE t}} :
             TRUE

\* tmp["時期"] = ...
SetPeriod(t) ==
    SetCol(t, "Period",
           IF HasCol(t, "QuoteDate")
           THEN [i \in 1..Len(t.data) |-> period_of(Col(t, "QuoteDate")[i])]
           ELSE constant_series(t, Null))

\* tmp["確度分類"] = ...
SetConfidenceClass(t) ==
    SetCol(t, "ConfidenceClass",
           IF HasCol(t, "Confidence")
           THEN [i \in 1..Len(t.data) |-> classify_conf(Col(t, "Confidence")[i])]
           ELSE constant_series(t, S(<<>>)))

\* tmp["200万FLAG"] = ...
SetFlag200(t) ==
    SetCol(t, "Flag200",
           IF HasCol(t, "AmountFlag")
           THEN [i \in 1..Len(t.data) |-> map_flag(Col(t, "AmountFlag")[i])]
           ELSE constant_series(t, S(<<>>)))

\* the statements of build_forecast_table that change tmp
ForecastTmp(t) ==
    Bind(NumericCols(t, <<"QuoteNo", "Revision">>), LAMBDA t0 :
        Bind(SetPeriod(t0), LAMBDA t1 :
            Bind(SetConfidenceClass(t1), LAMBDA t2 : SetFlag200(t2))))

\* forecast = tmp[cols_internal].copy(); forecast.columns = header
ForecastProject(h, tmp) ==
    Bind(alloc(h, Project(h[tmp], ForecastColsInternal)), LAMBDA f :
        Bind(store(f.heap, f.ref, [f.heap[f.ref] EXCEPT !.columns = ForecastHeader]),
             LAMBDA h2 : Return(h2, 1, f.ref)))

build_forecast_table(q) ==
    Bind(copy(<<q>>, 1), LAMBDA c :
        Bind(ForecastTmp(c.heap[c.ref]), LAMBDA t3 :
            Bind(store(c.heap, c.ref, t3), LAMBDA h1 :
                IF MissingCols(t3, ForecastColsInternal) # <<>>
                THEN Raise(h1, 1, MissingCols(t3, ForecastColsInternal))
                ELSE ForecastProject(h1, c.ref))))

\* required_cols of build_ibm_vad_forecast
VadRequired ==
    <<"QuoteDate", "Customer", "SalesRep", "Assistant", "QuoteNo", "Brand",
      "SKU", "LicenseCategory", "ProductName", "Quantity", "Subtotal",
      "EndUser", "AmountFlag">>

\* the nine columns build_ibm_vad_forecast fills with ""
VadBlankCols ==
    <<"DealTiming_internal", "DealConfidence_internal", "OtherComment_internal",
      "SalesCheck_internal", "PANumber_internal", "Category_internal",
      "Challenge_internal", "Owner_internal", "PGS_internal">>

\* cols_internal of build_ibm_vad_forecast
VadColsInternal ==
    <<"QuoteDate", "Customer", "SalesRep", "Assistant", "QuoteNo", "Brand",
      "SKU", "LicenseCategory", "ProductName", "Quantity", "Subtotal",
      "EU_internal">> \o VadBlankCols

\* header_vad of build_ibm_vad_forecast ("LicenseCategoryVad" stands for
\* ライセンスカテゴリ, spelled without the long mark of the source column)
VadHeader ==
    <<"QuoteDate", "Customer", "SalesRep", "Assistant", "QuoteNo", "Brand",
      "SKU", "LicenseCategoryVad", "ProductName", "Quantity", "Subtotal",
      "EU", "DealTiming", "DealConfidence", "OtherComment", "SalesCheck",
      "PANumber", "Category", "Challenge", "Owner", "PGS">>

\* variant: rows without brand are dropped as well
VadMaskMatched(t, i) ==
    Col(t, "AmountFlag")[i] = S(<<"STAR">>) /\ ~isna(Col(t, "Brand")[i])

\* d["200万円UPフラグ"] == "★", row i
VadMask(t, i) == Col(t, "AmountFlag")[i] = S(<<"STAR">>)

RECURSIVE SetBlank(_, _)
SetBlank(t, cols) ==
    IF cols = <<>> THEN t
    ELSE CHOOSE r \in {SetBlank(t1, Tail(cols)) :
                           t1 \in {SetCol(t, Head(cols), constant_series(t, S(<<>>)))}} :
             TRUE

\* d["EU_internal"] = d["エンドユーザー名"] and the nine blank columns;
\* vad_df = d[cols_internal].copy(); vad_df.columns = header_vad
VadProject(h, d) ==
    Bind(SetCol(h[d], "EU_internal", Col(h[d], "EndUser")), LAMBDA d1 :
        Bind(SetBlank(d1, VadBlankCols), LAMBDA d2 :
            Bind(alloc(store(h, d, d2), Project(d2, VadColsInternal)), LAMBDA v :
                Bind(store(v.heap, v.ref,
                           [v.heap[v.ref] EXCEPT !.columns = VadHeader]),
                     LAMBDA h2 : Return(h2, 1, v.ref)))))

build_ibm_vad_forecast(q) ==
    Bind(copy(<<q>>, 1), LAMBDA c :
        IF MissingCols(c.heap[c.ref], VadRequired) # <<>>
        THEN Raise(c.heap, 1, MissingCols(c.heap[c.ref], VadRequired))
        ELSE Bind(alloc(c.heap,
                        SelectRows(c.heap[c.ref],
                                   [i \in 1..Len(c.heap[c.ref].data) |->
                                       VadMask(c.heap[c.ref], i)])),
                  LAMBDA d : VadProject(d.heap, d.ref)))

----------------------------------------------------------------------------
(* Inputs.                                                                 *)

\* the columns of the quote extract (the source columns of the forecast)
QuoteCols ==
    <<"MakerName", "QuoteDate", "Customer", "SalesRep", "Assistant",
      "QuoteNo", "Revision", "Subject", "MakerPartNo", "ProductName",
      "Quantity", "Subtotal", "QuoteNotes", "DeliveryDue", "UnitPrice",
      "CostUnitPrice", "GrossProfit", "CostSubtotal", "GrossProfitSubtotal",
      "Confidence", "ExpectedOrderDate", "OrderStatus", "EndUser">>

\* the columns of the part master sheet
MasterCols == <<"PartNo", "Description", "Brand", "LicenseForm">>

\* a quote line: maker name, part number, quote number, subtotal, creation
\* date and confidence as given, a fixed value in every other column
QuoteRow(x) ==
    [k \in 1..Len(QuoteCols) |->
        CASE QuoteCols[k] = "MakerName" -> x.maker
          [] QuoteCols[k] = "MakerPartNo" -> x.part
          [] QuoteCols[k] = "QuoteNo" -> x.quote
          [] QuoteCols[k] = "Subtotal" -> x.subtotal
          [] QuoteCols[k] = "QuoteDate" -> x.date
          [] QuoteCols[k] = "Confidence" -> x.conf
          [] QuoteCols[k] \in {"Revision", "Quantity"} -> N(1)
          [] OTHER -> S(<<"v">>)]

MasterRow(x) == <<x.part, S(<<"v">>), x.brand, x.form>>

\* all sequences of at most max elements of set
SeqsUpTo(set, max) == UNION {[1..n -> set] : n \in 0..max}

QuoteTable(rows) == [columns |-> QuoteCols, data |-> rows]
MasterTable(rows) == [columns |-> MasterCols, data |-> rows]

\* the table without the columns of drop
DropCols(t, drop) == Project(t, SelectSeq(t.columns, LAMBDA c : c \notin drop))

Date1 == S(<<"2", "0", "2", "5", "/", "1", "1", "/", "2", "5">>)
ConfWon == S(<<"ju", "chu", "zumi">>)
ConfRough == S(<<"gai", "san">>)

PartD123456A == S(<<"D", "1", "2", "3", "4", "5", "6", "A">>)
PartD123456B == S(<<"D", "1", "2", "3", "4", "5", "6", "B">>)
PartE99 == S(<<"E", "9", "9">>)
PartH123456A == S(<<"H", "1", "2", "3", "4", "5", "6", "A">>)
BrandB1 == S(<<"B", "1">>)
BrandB2 == S(<<"B", "2">>)
FormL1 == S(<<"L", "1">>)

Fujitsu == S(<<"fu", "ji", "tsu">>)

BaseLine ==
    [maker |-> S(NihonIBM), part |-> PartD123456A, quote |-> N(1),
     subtotal |-> N(1000001), date |-> Date1, conf |-> ConfWon]

\* quote lines of generate_forecast's runs
RunLines ==
    {QuoteRow([BaseLine EXCEPT !.maker = mk, !.part = pt, !.quote = qn]) :
        mk \in {S(NihonIBM), Fujitsu},
        pt \in {PartD123456A, PartE99, PartH123456A},
        qn \in {N(1), N(2)}}

\* part master rows: two part numbers with one 7-character prefix, a row
\* without brand
MasterLines ==
    {MasterRow([part |-> PartD123456A, brand |-> BrandB1, form |-> FormL1]),
     MasterRow([part |-> PartD123456B, brand |-> BrandB2, form |-> FormL1]),
     MasterRow([part |-> PartE99, brand |-> Null, form |-> FormL1])}

Masters == {MasterTable(r) : r \in SeqsUpTo(MasterLines, MaxMasterRows)}

\* part masters of generate_forecast's runs: empty, one part, two parts with
\* one 7-character prefix and different brands, a part without brand, a sheet
\* without the brand column
RunMasters ==
    {MasterTable(<<>>),
     DropCols(MasterTable(<<>>), {"Brand"}),
     MasterTable(<<MasterRow([part |-> PartD123456A, brand |-> BrandB1, form |-> FormL1])>>),
     MasterTable(<<MasterRow([part |-> PartD123456A, brand |-> BrandB1, form |-> FormL1]),
                   MasterRow([part |-> PartD123456B, brand |-> BrandB2, form |-> FormL1])>>),
     MasterTable(<<MasterRow([part |-> PartD123456A, brand |-> BrandB1, form |-> FormL1]),
                   MasterRow([part |-> PartE99, brand |-> Null, form |-> FormL1])>>)}

\* the quote extract of a run: any lines with every column, or one line with
\* a column absent
RunQuotes ==
    {QuoteTable(r) : r \in SeqsUpTo(RunLines, MaxQuoteRows)}
    \cup {DropCols(QuoteTable(<<QuoteRow(BaseLine)>>), {c}) :
             c \in {"MakerName", "QuoteNo", "Subtotal", "MakerPartNo",
                    "Customer", "Subject"}}

\* output_prefix as given: "outputs/" and "outputs"
Prefixes == {<<"outputs", "/">>, <<"outputs">>}

----------------------------------------------------------------------------
(* tools/forecast_tool.py: generate_forecast, and app.py: run_forecast.    *)

\* variant: the VAD sheet built and saved before the forecast sheet is built
ProgramSaveEarly ==
    <<"filter_ibm_manufacturer", "attach_amount_flag", "attach_sku",
      "attach_brand_and_license", "filter_ibm_software",
      "build_ibm_vad_forecast", "output_keys", "save_vad",
      "build_forecast_table", "needs_review", "save_forecast",
      "save_needs_review", "return">>

\* variant: the VAD sheet built before the forecast sheet
ProgramVadFirst ==
    <<"filter_ibm_manufacturer", "attach_amount_flag", "attach_sku",
      "attach_brand_and_license", "filter_ibm_software",
      "build_ibm_vad_forecast", "build_forecast_table", "needs_review",
      "output_keys", "save_forecast", "save_vad", "save_needs_review",
      "return">>

\* the statements of generate_forecast after the two loads, in order
Program ==
    <<"filter_ibm_manufacturer", "attach_amount_flag", "attach_sku",
      "attach_brand_and_license", "filter_ibm_software",
      "build_forecast_table", "build_ibm_vad_forecast", "needs_review",
      "output_keys", "save_forecast", "save_vad", "save_needs_review",
      "return">>

StepIdx(step) == CHOOSE i \in 1..Len(Program) : Program[i] = step

\* the statement after step
After(step) ==
    IF StepIdx(step) = Len(Program) THEN "done" ELSE Program[StepIdx(step) + 1]

NoResponse == [status |-> 0, failed_at |-> "", missing |-> <<>>, summary |-> <<>>]

\* run_forecast's except branch: HTTP 500 carrying the error
Fail(step, cols) ==
    /\ pc' = "failed"
    /\ response' = [status |-> 500, failed_at |-> step, missing |-> cols,
                    summary |-> <<>>]

Enter(step) ==
    /\ pc = step
    /\ trace' = Append(trace, step)

\* load_quotes_from_cos, load_part_master_from_cos: get_cos_client raises
\* RuntimeError when the storage is not configured
Load ==
    /\ Enter("load")
    /\ IF cos.configured
       THEN /\ quotes_df' = cos.quotes
            /\ master_df' = cos.master
            /\ pc' = Program[1]
            /\ UNCHANGED response
       ELSE /\ Fail("load", <<>>)
            /\ UNCHANGED <<quotes_df, master_df>>
    /\ UNCHANGED <<ibm_df, df, forecast_df, vad_df, needs_review_df,
                   output_prefix, written, cos, fn, arg, arg2, ret, prev>>

\* ibm_df = filter_ibm_manufacturer(quotes_df)
StepFilterManufacturer ==
    /\ Enter("filter_ibm_manufacturer")
    /\ \E r \in {filter_ibm_manufacturer(quotes_df)} :
           /\ quotes_df' = r.args[1]
           /\ IF r.raised
              THEN Fail("filter_ibm_manufacturer", r.missing) /\ UNCHANGED ibm_df
              ELSE /\ ibm_df' = r.ret
                   /\ pc' = After("filter_ibm_manufacturer")
                   /\ UNCHANGED response
    /\ UNCHANGED <<master_df, df, forecast_df, vad_df, needs_review_df,
                   output_prefix, written, cos, fn, arg, arg2, ret, prev>>

\* ibm_df = attach_amount_flag(ibm_df)
StepAmountFlag ==
    /\ Enter("attach_amount_flag")
    /\ \E r \in {attach_amount_flag(ibm_df)} :
           IF r.raised
           THEN Fail("attach_amount_flag", r.missing) /\ ibm_df' = r.args[1]
           ELSE /\ ibm_df' = r.ret
                /\ pc' = After("attach_amount_flag")
                /\ UNCHANGED response
    /\ UNCHANGED <<quotes_df, master_df, df, forecast_df, vad_df,
                   needs_review_df, output_prefix, written, cos, fn, arg,
                   arg2, ret, prev>>

\* df = attach_sku(ibm_df)
StepSku ==
    /\ Enter("attach_sku")
    /\ \E r \in {attach_sku(ibm_df)} :
           /\ ibm_df' = r.args[1]
           /\ IF r.raised
              THEN Fail("attach_sku", r.missing) /\ UNCHANGED df
              ELSE /\ df' = r.ret
                   /\ pc' = After("attach_sku")
                   /\ UNCHANGED response
    /\ UNCHANGED <<quotes_df, master_df, forecast_df, vad_df, needs_review_df,
                   output_prefix, written, cos, fn, arg, arg2, ret, prev>>

\* df = attach_brand_and_license(df, master_df)
StepBrand ==
    /\ Enter("attach_brand_and_license")
    /\ \E r \in {attach_brand_and_license(df, master_df)} :
           /\ master_df' = r.args[2]
           /\ IF r.raised
              THEN Fail("attach_brand_and_license", r.missing) /\ df' = r.args[1]
              ELSE /\ df' = r.ret
                   /\ pc' = After("attach_brand_and_license")
                   /\ UNCHANGED response
    /\ UNCHANGED <<quotes_df, ibm_df, forecast_df, vad_df, needs_review_df,
                   output_prefix, written, cos, fn, arg, arg2, ret, prev>>

\* df = filter_ibm_software(df)
StepSoftware ==
    /\ Enter("filter_ibm_software")
    /\ \E r \in {filter_ibm_software(df)} :
           IF r.raised
           THEN Fail("filter_ibm_software", r.missing) /\ df' = r.args[1]
           ELSE /\ df' = r.ret
                /\ pc' = After("filter_ibm_software")
                /\ UNCHANGED response
    /\ UNCHANGED <<quotes_df, master_df, ibm_df, forecast_df, vad_df,
                   needs_review_df, output_prefix, written, cos, fn, arg,
                   arg2, ret, prev>>

\* forecast_df = build_forecast_table(df)
StepForecast ==
    /\ Enter("build_forecast_table")
    /\ \E r \in {build_forecast_table(df)} :
           /\ df' = r.args[1]
           /\ IF r.raised
              THEN Fail("build_forecast_table", r.missing) /\ UNCHANGED forecast_df
              ELSE /\ forecast_df' = r.ret
                   /\ pc' = After("build_forecast_table")
                   /\ UNCHANGED response
    /\ UNCHANGED <<quotes_df, master_df, ibm_df, vad_df, needs_review_df,
                   output_prefix, written, cos, fn, arg, arg2, ret, prev>>

\* vad_df = build_ibm_vad_forecast(df)
StepVad ==
    /\ Enter("build_ibm_vad_forecast")
    /\ \E r \in {build_ibm_vad_forecast(df)} :
           /\ df' = r.args[1]
           /\ IF r.raised
              THEN Fail("build_ibm_vad_forecast", r.missing) /\ UNCHANGED vad_df
              ELSE /\ vad_df' = r.ret
                   /\ pc' = After("build_ibm_vad_forecast")
                   /\ UNCHANGED response
    /\ UNCHANGED <<quotes_df, master_df, ibm_df, forecast_df, needs_review_df,
                   output_prefix, written, cos, fn, arg, arg2, ret, prev>>

\* variant: & in place of |
NeedsReviewMaskBoth(brand, category) == isna(brand) /\ isna(category)

\* df["ブランド"].isna() | df["ライセンスカテゴリー"].isna(), one row
NeedsReviewMask(brand, category) == isna(brand) \/ isna(category)

\* needs_review_df = df[df["ブランド"].isna() | df["ライセンスカテゴリー"].isna()]
StepNeedsReview ==
    /\ Enter("needs_review")
    /\ LET missing == MissingCols(df, <<"Brand", "LicenseCategory">>)
       IN  IF missing # <<>>
           THEN Fail("needs_review", <<Head(missing)>>) /\ UNCHANGED needs_review_df
           ELSE /\ needs_review_df' =
                       SelectRows(df, [i \in 1..Len(df.data) |->
                           NeedsReviewMask(Col(df, "Brand")[i],
                                           Col(df, "LicenseCategory")[i])])
                /\ pc' = After("needs_review")
                /\ UNCHANGED response
    /\ UNCHANGED <<quotes_df, master_df, ibm_df, df, forecast_df, vad_df,
                   output_prefix, written, cos, fn, arg, arg2, ret, prev>>

\* if not output_prefix.endswith("/"): output_prefix = output_prefix + "/"
StepOutputKeys ==
    /\ Enter("output_keys")
    /\ output_prefix' =
           IF output_prefix # <<>> /\ output_prefix[Len(output_prefix)] = "/"
           THEN output_prefix ELSE Append(output_prefix, "/")
    /\ pc' = After("output_keys")
    /\ UNCHANGED <<quotes_df, master_df, ibm_df, df, forecast_df, vad_df,
                   needs_review_df, written, response, cos, fn, arg, arg2,
                   ret, prev>>

\* save_forecast_to_cos(table, key=output_prefix + name): put_object
Save(step, name) ==
    /\ Enter(step)
    /\ written' = written \cup {Append(output_prefix, name)}
    /\ pc' = After(step)
    /\ UNCHANGED <<quotes_df, master_df, ibm_df, df, forecast_df, vad_df,
                   needs_review_df, output_prefix, response, cos, fn, arg,
                   arg2, ret, prev>>

\* put_object fails (storage or network error): nothing is written by it
SaveFails(step) ==
    /\ Enter(step)
    /\ Fail(step, <<>>)
    /\ UNCHANGED <<quotes_df, master_df, ibm_df, df, forecast_df, vad_df,
                   needs_review_df, output_prefix, written, cos, fn, arg,
                   arg2, ret, prev>>

SaveForecast == Save("save_forecast", "forecast.xlsx")
SaveVad == Save("save_vad", "vad_forecast.xlsx")
SaveNeedsReview == Save("save_needs_review", "needs_review.xlsx")

SaveError ==
    \E step \in {"save_forecast", "save_vad", "save_needs_review"} : SaveFails(step)

\* return GenerateForecastResult(...), answered by run_forecast with HTTP 200
StepReturn ==
    /\ Enter("return")
    /\ pc' = After("return")
    /\ response' =
           [status |-> 200, failed_at |-> "", missing |-> <<>>,
            summary |-> <<[forecast_key |-> Append(output_prefix, "forecast.xlsx"),
                           vad_forecast_key |-> Append(output_prefix, "vad_forecast.xlsx"),
                           needs_review_key |-> Append(output_prefix, "needs_review.xlsx"),
                           rows_total |-> Len(df.data),
                           rows_vad |-> Len(vad_df.data),
                           rows_needs_review |-> Len(needs_review_df.data)]>>]
    /\ UNCHANGED <<quotes_df, master_df, ibm_df, df, forecast_df, vad_df,
                   needs_review_df, output_prefix, written, cos, fn, arg,
                   arg2, ret, prev>>

NoCos == [configured |-> TRUE, quotes |-> NoTable, master |-> NoTable]

\* a request to run_forecast
InitRun ==
    /\ pc = "load"
    /\ \E q \in RunQuotes, m \in RunMasters, ok \in BOOLEAN :
          /\ ok \/ (q = QuoteTable(<<>>) /\ m = MasterTable(<<>>))
          /\ cos = [configured |-> ok, quotes |-> q, master |-> m]
    /\ output_prefix \in Prefixes
    /\ quotes_df = NoTable /\ master_df = NoTable /\ ibm_df = NoTable
    /\ df = NoTable /\ forecast_df = NoTable /\ vad_df = NoTable
    /\ needs_review_df = NoTable
    /\ written = {} /\ response = NoResponse /\ trace = <<>>
    /\ fn = "" /\ arg = NoTable /\ arg2 = NoTable /\ ret = NoResult
    /\ prev = NoTable

----------------------------------------------------------------------------
(* Direct calls of the stages of forecast_core/logic.py.                   *)

\* the sets of at most k elements of set
SubsetsUpTo(set, k) == {Range(f) : f \in SeqsUpTo(set, k)}

\* maker names: the three listed spellings, "IBMジャパン", "富士通", "ibm",
\* the first spelling followed by a space, and an empty cell
MakerNames ==
    {S(NihonAiBiEmu), S(NihonIBM), S(NihonAiBiEmuKK),
     S(<<"I", "B", "M", "ja", "pa", "n">>), Fujitsu, S(<<"i", "b", "m">>),
     S(Append(NihonAiBiEmu, " ")), Null}

MakerInputs ==
    {QuoteTable(r) :
        r \in SeqsUpTo({QuoteRow([BaseLine EXCEPT !.maker = mk]) : mk \in MakerNames},
                       MaxStageRows)}
    \cup {DropCols(QuoteTable(<<QuoteRow(BaseLine)>>), {"MakerName"})}

\* part numbers: texts longer and shorter than 7 characters, a number, an
\* empty cell, an empty text, a lower-case text
PartNumbers ==
    {PartD123456A, PartE99, PartH123456A, N(12345678), Null, S(<<>>),
     S(<<"x", "1">>), S(<<"Y", "0", "0", "0", "0", "0", "0", "0", "0">>)}

PartInputs ==
    {QuoteTable(r) :
        r \in SeqsUpTo({QuoteRow([BaseLine EXCEPT !.part = pt]) : pt \in PartNumbers},
                       MaxStageRows)}
    \cup {DropCols(QuoteTable(<<QuoteRow(BaseLine)>>), {"MakerPartNo"})}

SkuInputs ==
    {attach_sku(t).ret : t \in PartInputs}
    \cup {QuoteTable(<<QuoteRow(BaseLine)>>)}

\* quote numbers 1, 2 and none; subtotals around the threshold
AmountLines ==
    {QuoteRow([BaseLine EXCEPT !.quote = qn, !.subtotal = st]) :
        qn \in {N(1), N(2), Null},
        st \in {N(1000000), N(1000001), N(2000001)}}

AmountInputs ==
    {QuoteTable(r) : r \in SeqsUpTo(AmountLines, MaxStageRows)}
    \cup {DropCols(QuoteTable(<<QuoteRow(BaseLine)>>), d) :
             d \in {{"QuoteNo"}, {"Subtotal"}, {"QuoteNo", "Subtotal"}}}

BrandInputs ==
    {attach_sku(QuoteTable(r)).ret :
        r \in SeqsUpTo({QuoteRow([BaseLine EXCEPT !.part = pt]) :
                           pt \in {PartD123456A, PartD123456B, PartE99}},
                       MaxStageRows)}
    \cup {QuoteTable(<<QuoteRow(BaseLine)>>)}

MasterInputs ==
    Masters
    \cup {DropCols(MasterTable(<<MasterRow([part |-> PartD123456A,
                                           brand |-> BrandB1, form |-> FormL1])>>), d) :
             d \in {{"Brand"}, {"PartNo", "LicenseForm"}}}

\* the working table generate_forecast hands to the projectors
Enriched(rows, m) ==
    Bind(attach_amount_flag(QuoteTable(rows)).ret, LAMBDA t1 :
        Bind(attach_sku(t1).ret, LAMBDA t2 :
            Bind(attach_brand_and_license(t2, m).ret, LAMBDA t3 :
                filter_ibm_software(t3).ret)))

OneBrandMaster ==
    MasterTable(<<MasterRow([part |-> PartD123456A, brand |-> BrandB1,
                             form |-> FormL1])>>)

EnrichedLines ==
    {QuoteRow([BaseLine EXCEPT !.part = pt, !.quote = qn, !.conf = cf]) :
        pt \in {PartD123456A, PartE99}, qn \in {N(1), N(2)},
        cf \in {ConfWon, ConfRough}}

TwoLines ==
    <<QuoteRow(BaseLine), QuoteRow([BaseLine EXCEPT !.date = Null, !.conf = Null])>>

\* the source columns build_forecast_table reads
ForecastSources ==
    (Range(ForecastColsInternal) \ {"Period", "ConfidenceClass", "Flag200"})
        \cup {"AmountFlag"}

ForecastInputs ==
    {DropCols(Enriched(r, OneBrandMaster), d) :
        r \in {<<QuoteRow(BaseLine)>>, TwoLines},
        d \in SubsetsUpTo(ForecastSources, MaxMissing)}

VadInputs ==
    {Enriched(r, OneBrandMaster) : r \in SeqsUpTo(EnrichedLines, MaxStageRows)}
    \cup {DropCols(Enriched(TwoLines, OneBrandMaster), d) :
             d \in SubsetsUpTo(Range(VadRequired), MaxMissing)}

StageInputs(f) ==
    CASE f = "filter_ibm_manufacturer" -> MakerInputs
      [] f = "attach_sku" -> PartInputs
      [] f = "attach_brand_and_license" -> BrandInputs
      [] f = "filter_ibm_software" -> SkuInputs
      [] f = "attach_amount_flag" -> AmountInputs
      [] f = "build_forecast_table" -> ForecastInputs
      [] f = "build_ibm_vad_forecast" -> VadInputs

StageNames ==
    {"filter_ibm_manufacturer", "attach_sku", "attach_brand_and_license",
     "filter_ibm_software", "attach_amount_flag", "build_forecast_table",
     "build_ibm_vad_forecast"}

\* a caller holds a table (and a master) and is about to call stage fn
InitCall ==
    /\ pc = "call"
    /\ fn \in StageNames
    /\ arg \in StageInputs(fn)
    /\ arg2 \in IF fn = "attach_brand_and_license" THEN MasterInputs ELSE {NoTable}
    /\ ret = NoResult /\ prev = NoTable
    /\ cos = NoCos /\ output_prefix = <<>>
    /\ quotes_df = NoTable /\ master_df = NoTable /\ ibm_df = NoTable
    /\ df = NoTable /\ forecast_df = NoTable /\ vad_df = NoTable
    /\ needs_review_df = NoTable
    /\ written = {} /\ response = NoResponse /\ trace = <<>>

\* the call returns or raises; arg and arg2 show the argument objects after it
Call(f, r) ==
    /\ pc = "call"
    /\ fn = f
    /\ \E o \in {r} :
           /\ ret' = o
           /\ arg' = o.args[1]
           /\ arg2' = IF Len(o.args) > 1 THEN o.args[2] ELSE arg2
    /\ pc' = "returned"
    /\ UNCHANGED <<quotes_df, master_df, ibm_df, df, forecast_df, vad_df,
                   needs_review_df, output_prefix, written, response, trace,
                   cos, fn, prev>>

CallFilterManufacturer == Call("filter_ibm_manufacturer", filter_ibm_manufacturer(arg))
CallAttachSku == Call("attach_sku", attach_sku(arg))
CallAttachBrand == Call("attach_brand_and_license", attach_brand_and_license(arg, arg2))
CallFilterSoftware == Call("filter_ibm_software", filter_ibm_software(arg))
CallAmountFlag == Call("attach_amount_flag", attach_amount_flag(arg))
CallBuildForecast == Call("build_forecast_table", build_forecast_table(arg))
CallBuildVad == Call("build_ibm_vad_forecast", build_ibm_vad_forecast(arg))

\* the manufacturer filter applied to the table it returned; prev shows the
\* first result after the second call
CallFilterAgain ==
    /\ pc = "returned"
    /\ fn = "filter_ibm_manufacturer"
    /\ ~ret.raised
    /\ \E r \in {filter_ibm_manufacturer(ret.ret)} :
           /\ ret' = r
           /\ prev' = r.args[1]
    /\ pc' = "called_again"
    /\ UNCHANGED <<quotes_df, master_df, ibm_df, df, forecast_df, vad_df,
                   needs_review_df, output_prefix, written, response, trace,
                   cos, fn, arg, arg2>>

----------------------------------------------------------------------------

Init == InitRun \/ InitCall

Next ==
    \/ Load
    \/ StepFilterManufacturer
    \/ StepAmountFlag
    \/ StepSku
    \/ StepBrand
    \/ StepSoftware
    \/ StepForecast
    \/ StepVad
    \/ StepNeedsReview
    \/ StepOutputKeys
    \/ SaveForecast
    \/ SaveVad
    \/ SaveNeedsReview
    \/ SaveError
    \/ StepReturn
    \/ CallFilterManufacturer
    \/ CallAttachSku
    \/ CallAttachBrand
    \/ CallFilterSoftware
    \/ CallAmountFlag
    \/ CallBuildForecast
    \/ CallBuildVad
    \/ CallFilterAgain

Spec == Init /\ [][Next]_vars

----------------------------------------------------------------------------
(* Properties.                                                             *)

Cell(t, i, c) == t.data[i][ColIdx(t, c)]

Star == S(<<"STAR">>)
Ng == S(<<"NG">>)

\* a direct call of stage f has come back
Returned(f) == pc = "returned" /\ fn = f

\* the rows of t with the same cells as row i of u in the columns of u
SameCells(t, u, i) == \A c \in Range(u.columns) : Cell(t, i, c) = Cell(u, i, c)

RECURSIVE GroupTotal(_, _, _)
\* the sum of Subtotal over the rows i.. of t whose quote number is k
GroupTotal(t, k, i) ==
    IF i > Len(t.data) THEN 0
    ELSE (IF Cell(t, i, "QuoteNo") = k THEN Cell(t, i, "Subtotal").n ELSE 0)
         + GroupTotal(t, k, i + 1)

\* C1: attach_amount_flag, given a table with the quote-number and subtotal
\* columns, returns the same rows with a marker column in which a row is "★"
\* exactly when the subtotals of the rows with its quote number (rows without
\* quote number forming one group) sum to more than 2,000,000, and "NG"
\* otherwise; a sum of exactly 2,000,000 is "NG".
AmountFlagRule ==
    (Returned("attach_amount_flag") /\ HasCol(arg, "QuoteNo") /\ HasCol(arg, "Subtotal"))
    => /\ ~ret.raised
       /\ Len(ret.ret.data) = Len(arg.data)
       /\ \A i \in 1..Len(arg.data) :
             /\ SameCells(ret.ret, arg, i)
             /\ Cell(ret.ret, i, "AmountFlag") =
                    IF GroupTotal(arg, Cell(arg, i, "QuoteNo"), 1) > 2000000
                    THEN Star ELSE Ng

\* C1 witness: two rows of one quotation summing to exactly 2,000,000, marked NG
AmountFlagBoundaryReached ==
    /\ Returned("attach_amount_flag")
    /\ ~ret.raised
    /\ Len(arg.data) = 2
    /\ Cell(arg, 1, "QuoteNo") = Cell(arg, 2, "QuoteNo")
    /\ GroupTotal(arg, Cell(arg, 1, "QuoteNo"), 1) = 2000000
    /\ Cell(ret.ret, 1, "AmountFlag") = Ng
    /\ Cell(ret.ret, 2, "AmountFlag") = Ng

\* the first row of master m whose 7-character key is sku, 0 when there is none
FirstMatch(m, sku) ==
    IF \E j \in 1..Len(m.data) : SkuOf(Cell(m, j, "PartNo")) = sku
    THEN CHOOSE j \in 1..Len(m.data) :
             /\ SkuOf(Cell(m, j, "PartNo")) = sku
             /\ \A k \in 1..(j - 1) : SkuOf(Cell(m, k, "PartNo")) # sku
    ELSE 0

\* C2: attach_brand_and_license returns exactly one row per quote row, in
\* input order, with the brand and license form of the first master row whose
\* 7-character key equals the row's SKU, or with both empty when there is none.
JoinIsManyToOne ==
    (Returned("attach_brand_and_license") /\ ~ret.raised)
    => /\ Len(ret.ret.data) = Len(arg.data)
       /\ \A i \in 1..Len(arg.data) :
             /\ SameCells(ret.ret, arg, i)
             /\ LET j == FirstMatch(arg2, Cell(arg, i, "SKU"))
                IN  /\ Cell(ret.ret, i, "Brand") =
                           IF j = 0 THEN Null ELSE Cell(arg2, j, "Brand")
                    /\ Cell(ret.ret, i, "LicenseForm") =
                           IF j = 0 THEN Null ELSE Cell(arg2, j, "LicenseForm")

\* the steps of generate_forecast that check columns
Stages ==
    {"filter_ibm_manufacturer", "attach_amount_flag", "attach_sku",
     "attach_brand_and_license", "filter_ibm_software", "build_forecast_table",
     "build_ibm_vad_forecast", "needs_review"}

\* C3: when a stage of generate_forecast fails on a missing column, the request
\* is answered with an error, no output object has been written to storage
\* and no summary is returned.
StageFailureWritesNothing ==
    (response.status = 500 /\ response.failed_at \in Stages)
    => written = {} /\ response.summary = <<>>

\* C3 witness: the run got as far as the forecast build, which failed on a
\* missing column, and nothing is in storage
ForecastBuildFailedInRun ==
    /\ response.status = 500
    /\ response.failed_at = "build_forecast_table"
    /\ response.missing # <<>>
    /\ "filter_ibm_software" \in Range(trace)
    /\ written = {}

\* the 26 columns build_forecast_table passes through
PassThrough ==
    <<"MakerName", "QuoteDate", "Customer", "SalesRep", "Assistant",
      "QuoteNo", "Revision", "Subject", "Brand", "MakerPartNo", "SKU",
      "LicenseCategory", "ProductName", "Quantity", "Subtotal", "QuoteNotes",
      "DeliveryDue", "UnitPrice", "CostUnitPrice", "GrossProfit",
      "CostSubtotal", "GrossProfitSubtotal", "Confidence",
      "ExpectedOrderDate", "OrderStatus", "EndUser">>

\* the 29 columns of the forecast sheet
ForecastSheet == PassThrough \o <<"Period", "Confidence", "Over200Judgement">>

Absent(t, required) == SelectSeq(required, LAMBDA c : c \notin Range(t.columns))

\* the outcome of build_forecast_table when the columns of required are the
\* ones it insists on
ForecastOutcome(required) ==
    IF Absent(arg, required) # <<>>
    THEN ret.raised /\ Range(ret.missing) = Range(Absent(arg, required))
    ELSE /\ ~ret.raised
         /\ ret.ret.columns = ForecastSheet
         /\ Len(ret.ret.data) = Len(arg.data)

ReviewSelected ==
    /\ "needs_review" \in Range(trace)
    /\ response.failed_at # "needs_review"

NeedsReviewRow(t, i) ==
    Cell(t, i, "Brand") = Null \/ Cell(t, i, "LicenseCategory") = Null

\* row i of the working table has its SKU in the part master
InMaster(i) ==
    \E j \in 1..Len(master_df.data) :
        SkuOf(Cell(master_df, j, "PartNo")) = Cell(df, i, "SKU")

\* row i of the working table carries a master entry with brand and license form
FullyMatched(i) ==
    \E j \in 1..Len(master_df.data) :
        /\ SkuOf(Cell(master_df, j, "PartNo")) = Cell(df, i, "SKU")
        /\ Cell(master_df, j, "Brand") = Cell(df, i, "Brand")
        /\ Cell(master_df, j, "LicenseForm") = Cell(df, i, "LicenseCategory")
        /\ Cell(master_df, j, "Brand") # Null
        /\ Cell(master_df, j, "LicenseForm") # Null

\* needs-review is the rows of the working table without brand or without
\* license category, all columns kept, and holds every unmatched row
ReviewIsNullRows ==
    /\ needs_review_df.columns = df.columns
    /\ needs_review_df.data =
           SelectSeq(df.data, LAMBDA row :
               \E i \in 1..Len(df.data) : df.data[i] = row /\ NeedsReviewRow(df, i))
    /\ \A i \in 1..Len(df.data) :
           ~InMaster(i) => df.data[i] \in Range(needs_review_df.data)

\* C5 as stated: needs-review is exactly the rows of the working table (after
\* the software filter) whose brand or license category is null, with all
\* columns; every unmatched row is in it and no row matched to a master entry
\* is in it.
ReviewHoldsNoMatchedRow ==
    ReviewSelected
    => /\ ReviewIsNullRows
       /\ \A i \in 1..Len(df.data) :
             InMaster(i) => df.data[i] \notin Range(needs_review_df.data)

\* C5 amended: needs-review is exactly the rows of the working table (after
\* the software filter) whose brand or license category is null, with all
\* columns; every unmatched row is in it and no row matched to a master entry
\* whose brand and license form are both present is in it.
ReviewHoldsNoFullyMatchedRow ==
    ReviewSelected
    => /\ ReviewIsNullRows
       /\ \A i \in 1..Len(df.data) :
             FullyMatched(i) => df.data[i] \notin Range(needs_review_df.data)

\* C5 witness: of two working rows, the unmatched one is in needs-review and
\* the fully matched one is not
ReviewSplitsRows ==
    /\ ReviewSelected
    /\ Len(df.data) = 2
    /\ Len(needs_review_df.data) = 1
    /\ \E i, k \in 1..2 :
          /\ ~InMaster(i) /\ df.data[i] = needs_review_df.data[1]
          /\ FullyMatched(k) /\ df.data[k] \notin Range(needs_review_df.data)

Flagged(t, i) == Cell(t, i, "AmountFlag") = Star

\* the VAD row of row i of t: twelve cells of the row and nine empty texts
VadRow(t, i) ==
    [k \in 1..21 |->
        IF k <= 12
        THEN Cell(t, i, <<"QuoteDate", "Customer", "SalesRep", "Assistant",
                          "QuoteNo", "Brand", "SKU", "LicenseCategory",
                          "ProductName", "Quantity", "Subtotal", "EndUser">>[k])
        ELSE S(<<>>)]

\* the VAD rows of the flagged rows of t, in the order of t
VadRows(t) ==
    LET idx == SelectSeq([i \in 1..Len(t.data) |-> i], LAMBDA i : Flagged(t, i))
    IN  [k \in 1..Len(idx) |-> VadRow(t, idx[k])]

\* the VAD build of the run has succeeded
VadBuilt ==
    /\ "build_ibm_vad_forecast" \in Range(trace)
    /\ response.failed_at # "build_ibm_vad_forecast"

\* C6: build_ibm_vad_forecast returns one row for each flagged input row, in
\* order, and none for any other row, whether or not brand or license
\* category is null; the VAD table has at most as many rows as the working
\* table; a flagged row without a match in the part master is in the VAD
\* table and in the needs-review table.
VadIsFlaggedRows ==
    /\ (Returned("build_ibm_vad_forecast") /\ ~ret.raised)
       => /\ ret.ret.data = VadRows(arg)
          /\ Len(ret.ret.data) <= Len(arg.data)
    /\ VadBuilt
       => /\ vad_df.data = VadRows(df)
          /\ Len(vad_df.data) <= Len(df.data)
    /\ (VadBuilt /\ ReviewSelected)
       => \A i \in 1..Len(df.data) :
             (Flagged(df, i) /\ ~InMaster(i))
             => /\ VadRow(df, i) \in Range(vad_df.data)
                /\ df.data[i] \in Range(needs_review_df.data)

\* C6 witness: a flagged row without a match in the part master is in both
\* tables of a run
FlaggedUnmatchedInBoth ==
    /\ VadBuilt
    /\ ReviewSelected
    /\ \E i \in 1..Len(df.data) :
          /\ Flagged(df, i)
          /\ ~InMaster(i)
          /\ Cell(df, i, "Brand") = Null
          /\ VadRow(df, i) \in Range(vad_df.data)
          /\ df.data[i] \in Range(needs_review_df.data)

\* the maker name is one of the listed spellings or contains "IBM"
IsIbmName(c) ==
    /\ c.t = "str"
    /\ \/ c.s \in {NihonAiBiEmu, NihonIBM, NihonAiBiEmuKK}
       \/ \E k \in 1..(Len(c.s) - 2) :
              c.s[k] = "I" /\ c.s[k + 1] = "B" /\ c.s[k + 2] = "M"

IbmRows(t) ==
    SelectSeq(t.data, LAMBDA row : IsIbmName(row[ColIdx(t, "MakerName")]))

\* C7: filter_ibm_manufacturer, given a table with the maker-name column,
\* returns exactly the rows whose maker name is a listed spelling or contains
\* "IBM" (case-sensitive), in input order and with the input's columns;
\* applied to its own result it returns the same table.
ManufacturerFilterRule ==
    /\ (fn = "filter_ibm_manufacturer" /\ pc \in {"returned", "called_again"}
            /\ HasCol(arg, "MakerName"))
       => /\ ~ret.raised
          /\ ret.ret.columns = arg.columns
          /\ ret.ret.data = IbmRows(arg)
    /\ pc = "called_again" => ret.ret = prev

\* C7 witness: the filter kept one of two rows and, applied again, kept it
FilterAppliedTwice ==
    /\ pc = "called_again"
    /\ Len(arg.data) = 2
    /\ Len(prev.data) = 1
    /\ ret.ret = prev

\* the stages of a run, in the order they were entered
StagesRun == SelectSeq(trace, LAMBDA step : step \in Stages)

\* C8: a successful run has executed the eight stages once each in the fixed
\* order; in every run SKU derivation precedes the software filter; and
\* filter_ibm_software given a table without SKU column raises the
\* missing-column error.
StageOrderFixed ==
    /\ response.status = 200
       => StagesRun =
              <<"filter_ibm_manufacturer", "attach_amount_flag", "attach_sku",
                "attach_brand_and_license", "filter_ibm_software",
                "build_forecast_table", "build_ibm_vad_forecast", "needs_review">>
    /\ \A k \in 1..Len(trace) :
           trace[k] = "filter_ibm_software"
           => \E j \in 1..(k - 1) : trace[j] = "attach_sku"
    /\ (Returned("filter_ibm_software") /\ ~HasCol(arg, "SKU"))
       => ret.raised /\ ret.missing = <<"SKU">>

\* C8 witness: a successful run with a non-empty working table
RunSucceeded ==
    /\ response.status = 200
    /\ df.data # <<>>
    /\ Len(StagesRun) = 8

\* one step leaves the tables handed to a stage as they were, and the stage
\* result is an object of its own
InputsKept ==
    /\ pc = "call"
       => /\ arg' = arg
          /\ arg2' = arg2
          /\ ret'.fresh
    /\ (pc = "returned" /\ pc' = "called_again")
       => /\ prev' = ret.ret
          /\ ret'.fresh
    /\ pc = "filter_ibm_manufacturer" => quotes_df' = quotes_df
    /\ pc = "attach_sku" => ibm_df' = ibm_df
    /\ pc = "attach_brand_and_license" => master_df' = master_df
    /\ pc \in {"build_forecast_table", "build_ibm_vad_forecast"} => df' = df

\* C9: every stage leaves its input tables as they were, whether it returns or
\* raises, and its result is a separate table.
StagesKeepInputs == [][InputsKept]_vars

\* C9 witness: attach_brand_and_license has returned a table with the brand
\* column while its two inputs are as they were given
BrandAttachedApart ==
    /\ Returned("attach_brand_and_license")
    /\ ~ret.raised
    /\ ret.fresh
    /\ ret.ret.data # <<>>
    /\ HasCol(ret.ret, "Brand")
    /\ ~HasCol(arg, "Brand")
    /\ ~HasCol(arg2, "SKU")

RECURSIVE QuoteTotal(_, _)
\* the sum of Subtotal over the rows i.. of the loaded quotes whose maker name
\* is an IBM name and whose quote number is k
QuoteTotal(k, i) ==
    IF i > Len(quotes_df.data) THEN 0
    ELSE (IF /\ IsIbmName(Cell(quotes_df, i, "MakerName"))
             /\ Cell(quotes_df, i, "QuoteNo") = k
          THEN Cell(quotes_df, i, "Subtotal").n ELSE 0)
         + QuoteTotal(k, i + 1)

RECURSIVE WorkingTotal(_, _)
\* the sum of Subtotal over the rows i.. of the working table with quote number k
WorkingTotal(k, i) ==
    IF i > Len(df.data) THEN 0
    ELSE (IF Cell(df, i, "QuoteNo") = k THEN Cell(df, i, "Subtotal").n ELSE 0)
         + WorkingTotal(k, i + 1)

\* the software filter of the run has succeeded
SoftwareFiltered ==
    /\ "filter_ibm_software" \in Range(trace)
    /\ response.failed_at # "filter_ibm_software"

\* C10: in a run, a row of the final working table is flagged exactly when
\* the subtotals of all loaded quote rows of an IBM maker name with its quote
\* number sum to more than 2,000,000, rows later removed by the software
\* filter included and rows of other makers excluded; the VAD rows are the
\* rows so flagged.
FlagCountsAllIbmRows ==
    /\ SoftwareFiltered
       => \A i \in 1..Len(df.data) :
             Cell(df, i, "AmountFlag") =
                 IF QuoteTotal(Cell(df, i, "QuoteNo"), 1) > 2000000
                 THEN Star ELSE Ng
    /\ (SoftwareFiltered /\ VadBuilt)
       => \A i \in 1..Len(df.data) :
             QuoteTotal(Cell(df, i, "QuoteNo"), 1) > 2000000
             <=> VadRow(df, i) \in Range(vad_df.data)

\* C10 witness: a flagged working row whose quotation has 2,000,000 or less
\* left in the working table, the rest having been removed by the software
\* filter
FlaggedByRemovedRow ==
    /\ SoftwareFiltered
    /\ VadBuilt
    /\ \E i \in 1..Len(df.data) :
          /\ Flagged(df, i)
          /\ WorkingTotal(Cell(df, i, "QuoteNo"), 1) <= 2000000
          /\ VadRow(df, i) \in Range(vad_df.data)

=============================================================================
